---- MODULE Spec2Model ----
(***************************************************************************)
(* Limit-order lifecycle of the Abstract/Reservoir Telegram trading bot.   *)
(*                                                                         *)
(* The model follows src/unnamed/part_000: the order store (mongoose       *)
(* documents), the monitoring loop processOrdersLoop, the executor         *)
(* AbstractChainService.executeReservoirSwap and the callback handler      *)
(* cancel_order_.  Every "await" of the source is a point where other      *)
(* handlers may run, so each action below is the code between two awaits.  *)
(* Prices are integers in a fixed minimal unit; the floating-point         *)
(* comparison price <= triggerPrice * (1 + slippage / 100) is modelled by  *)
(* its exact cross-multiplied form.  Spec is the monitoring loop together  *)
(* with cancel requests; SpecLoop is the monitoring loop alone.            *)
(***************************************************************************)
EXTENDS Integers, Sequences, FiniteSets, TLC

VARIABLES orders, pass, timer, started, now, cancels, sent, execCount, lastEval,
          lastCall, partial,
          userStates, pendingOrders, selectedWallets, users, lastUi, saving

vars == <<orders, pass, timer, started, now, cancels, sent, execCount, lastEval,
          lastCall, partial,
          userStates, pendingOrders, selectedWallets, users, lastUi, saving>>

\* the state of the Telegram handlers: the three Maps of the process, the
\* users collection, what the last handler answered, and the documents of
\* the create_order_* handlers that await newOrder.save()
uiVars == <<userStates, pendingOrders, selectedWallets, users, lastUi, saving>>

\* the state of the scheduler and of the cancel handler
loopVars == <<pass, timer, started, cancels, sent, execCount, lastEval, lastCall,
              partial>>

----------------------------------------------------------------------------
(* Bounds of the model *)

NumOrders == 2
MaxPasses == 2
MaxTime == 1
MaxCancels == 1
MaxWallets == 1

\* create_order_* handlers that can be awaiting newOrder.save() at a time
MaxCreates == 2

OrderIds == 1..NumOrders
PassIds == 1..MaxPasses
CreateIds == 1..MaxCreates
CancelIds == 1..MaxCancels

\* the stored value null of the optional field expiry
NULL == -1

----------------------------------------------------------------------------
(* Values the environment can produce *)

WETH == "0x3439"
TOKEN == "0xToken"

\* prices the oracle can report for a token (around the bands of TriggerPrices)
Prices == {98, 99, 101, 102}

\* prices the oracle reports for the wrapped native token
WethPrices == {3000}

\* the price endpoint answers for the address it is asked about
Feed(token) == IF token = WETH THEN WethPrices ELSE Prices

TriggerPrices == {100}
Slippages == {1}
Expiries == {NULL, 0}

\* swap plans the quote service can return: ordered steps, each with a
\* number of transaction items
Plans ==
  { << [id |-> "swap", items |-> 1] >>,
    << [id |-> "approve", items |-> 2], [id |-> "Swap", items |-> 1] >> }

NoPlan == << >>
NoHash == "undefined"

----------------------------------------------------------------------------
(* Users, wallets and keys *)

\* Telegram ids
Users == {1, 2}

\* the user who presses buttons and sends text; the other users only own
\* stored data
Actors == {1}

\* private keys as a user types them (64 hex digits, written short)
KeyOf(u) == IF u = 1 THEN "a1f4" ELSE "b2e5"

\* the key of a wallet a user imports
NewKey == "c3d6"

KeyTexts == {KeyOf(u) : u \in Users} \cup {NewKey}

\* 64 hex digits that are no private key of the curve
ZeroKey == "0000"

\* crypto.randomBytes(16) as hex
Ivs == {"iv7"}

\* aes-256-cbc under ENCRYPTION_KEY, as hex
Cipher(text) ==
  CASE text = "a1f4" -> "9c0e"
    [] text = "b2e5" -> "77d1"
    [] text = "c3d6" -> "04fa"
    [] OTHER -> "e3e3"

\* EncryptionService.encrypt: "<iv>:<ciphertext>"
encrypt(text, iv) == iv \o ":" \o Cipher(text)

\* new ethers.Wallet(key).address
AddressOf(key) ==
  CASE key = "a1f4" -> "0xA11ce"
    [] key = "b2e5" -> "0xB0b"
    [] key = "c3d6" -> "0xCa7"
    [] OTHER -> "0x0"

\* an entry of user.wallets (walletSchema)
WalletOf(key, iv) == [address |-> AddressOf(key), encryptedKey |-> encrypt(key, iv)]

NoWallet == [address |-> "", encryptedKey |-> ""]

----------------------------------------------------------------------------
(* The order store *)

\* IOrder / orderSchema
OrderRecord(id, type, trig, slip, exp) ==
  [ id |-> id,
    userId |-> id,
    wallet |-> WalletOf(KeyOf(id), "iv7"),
    type |-> type,
    tokenIn |-> IF type = "BUY" THEN WETH ELSE TOKEN,
    tokenOut |-> IF type = "BUY" THEN TOKEN ELSE WETH,
    amount |-> 10,
    triggerPrice |-> trig,
    slippage |-> slip,
    status |-> "ACTIVE",
    expiry |-> exp,
    updatedAt |-> 0 ]

\* Order.find({ status: "ACTIVE" }): the documents loaded into memory
RECURSIVE FindActiveFrom(_, _)
FindActiveFrom(store, k) ==
  IF k > NumOrders THEN << >>
  ELSE IF store[k].status = "ACTIVE"
       THEN << store[k] >> \o FindActiveFrom(store, k + 1)
       ELSE FindActiveFrom(store, k + 1)

FindActive_all(store) == [k \in 1..NumOrders |-> store[k]]

FindActive(store) == FindActiveFrom(store, 1)

\* document.save() of a loaded document whose status was assigned: the
\* update is keyed by _id only and sets the modified path (and updatedAt,
\* schema option timestamps)
Save_consume(store, doc, t) ==
  [store EXCEPT ![doc.id].status = doc.status, ![doc.id].updatedAt = t,
                ![doc.id].amount = 0]

Save(store, doc, t) ==
  [store EXCEPT ![doc.id].status = doc.status, ![doc.id].updatedAt = t]

----------------------------------------------------------------------------
(* Pure parts of processOrdersLoop *)

SlippageScale == 100

\* order.type === "BUY" && price <= triggerPrice * (1 + slippage / 100)
BuyEligible_strict(doc, price) ==
  price * SlippageScale < doc.triggerPrice * (SlippageScale + doc.slippage)

BuyEligible(doc, price) ==
  price * SlippageScale <= doc.triggerPrice * (SlippageScale + doc.slippage)

\* order.type === "SELL" && price >= triggerPrice * (1 - slippage / 100)
SellEligible_strict(doc, price) ==
  price * SlippageScale > doc.triggerPrice * (SlippageScale - doc.slippage)

SellEligible(doc, price) ==
  price * SlippageScale >= doc.triggerPrice * (SlippageScale - doc.slippage)

PriceCheck(doc, price) ==
  \/ doc.type = "BUY" /\ BuyEligible(doc, price)
  \/ doc.type = "SELL" /\ SellEligible(doc, price)

\* order.expiry !== null && Date.now() > order.expiry
Expired_inverted(doc, t) == doc.expiry # NULL /\ t < doc.expiry

Expired(doc, t) == doc.expiry # NULL /\ t > doc.expiry

\* order.type === "BUY" ? order.tokenOut : order.tokenIn
TokenToWatch_in(doc) == doc.tokenIn

TokenToWatch(doc) == IF doc.type = "BUY" THEN doc.tokenOut ELSE doc.tokenIn

\* getLivePrice: the reported price, or 0 when the fetch fails
PriceFailed == 0

getLivePrice(ok, reported) == IF ok THEN reported ELSE PriceFailed

\* step.id.toLowerCase()
toLowerCase(id) == IF id = "Swap" THEN "swap" ELSE id

----------------------------------------------------------------------------
(* The Telegram handlers: drafts of orders and text input *)

\* a token field of a draft that is still null
NoToken == "null"

\* callback data after expiry_buy_ / expiry_sell_, as the characters of the
\* text; the keyboards of the bot offer 30m, 1h, 4h, 1d, 4d and none
NONE == <<"n", "o", "n", "e">>
NEVER == <<"n", "e", "v", "e", "r">>
OneHour == <<"1", "h">>

ExpiryTexts ==
  { <<"3", "0", "m">>, OneHour, <<"4", "D">>, NONE, NEVER, <<"0">>,
    <<"1", "w">> }

Digits == {"0", "1", "2", "3", "4", "5", "6", "7", "8", "9"}

DigitValue(c) ==
  CASE c = "0" -> 0 [] c = "1" -> 1 [] c = "2" -> 2 [] c = "3" -> 3
    [] c = "4" -> 4 [] c = "5" -> 5 [] c = "6" -> 6 [] c = "7" -> 7
    [] c = "8" -> 8 [] c = "9" -> 9

\* parseInt(match[1], 10) of a run of digits
RECURSIVE parseInt(_)
parseInt(ds) ==
  IF ds = << >> THEN 0
  ELSE parseInt(SubSeq(ds, 1, Len(ds) - 1)) * 10 + DigitValue(ds[Len(ds)])

\* String.prototype.trim
RECURSIVE trim(_)
trim(s) ==
  IF s = << >> THEN s
  ELSE IF Head(s) = " " THEN trim(Tail(s))
  ELSE IF s[Len(s)] = " " THEN trim(SubSeq(s, 1, Len(s) - 1))
  ELSE s

LowerChar(c) ==
  CASE c = "D" -> "d" [] c = "H" -> "h" [] c = "M" -> "m" [] c = "W" -> "w"
    [] c = "N" -> "n" [] c = "E" -> "e" [] c = "V" -> "v" [] c = "R" -> "r"
    [] c = "O" -> "o" [] OTHER -> c

lower(s) == [i \in 1..Len(s) |-> LowerChar(s[i])]

\* the outcome of parseExpiry when it throws
Thrown == -2

\* parseExpiry: seconds
parseExpiry(expiry) ==
  LET trimmed == lower(trim(expiry))
      n == Len(trimmed) IN
    IF trimmed = NEVER \/ trimmed = <<"0">> THEN 0
    ELSE IF /\ n >= 2
            /\ \A i \in 1..(n - 1) : trimmed[i] \in Digits
            /\ trimmed[n] \in {"d", "h", "m"}
         THEN LET value == parseInt(SubSeq(trimmed, 1, n - 1))
                  unit == trimmed[n] IN
                IF unit = "d" THEN value * 24 * 60 * 60
                ELSE IF unit = "h" THEN value * 60 * 60
                ELSE value * 60
         ELSE Thrown

\* expiryValue of create_order_*: milliseconds, null for the choice none
ExpiryValue_seconds(expiry, t) ==
  IF expiry = NONE THEN NULL ELSE t + parseExpiry(expiry)

ExpiryValue(expiry, t) ==
  IF expiry = NONE THEN NULL ELSE t + parseExpiry(expiry) * 1000

\* 1e18, written short (TLC integers have 32 bits)
E18 == 1000000

\* what parseFloat makes of a text that is no number
NaN == -999

\* texts a user sends
Texts == {TOKEN, "5", "150", NewKey, ZeroKey}

\* parseFloat(text): the longest numeric prefix
parseFloat(text) ==
  CASE text = "5" -> 5
    [] text = "150" -> 150
    [] text = ZeroKey -> 0
    [] text = TOKEN -> 0
    [] OTHER -> NaN

isNaN(x) == x = NaN

\* /^0x[a-fA-F0-9]{40}$/.test(text)
IsAddress(text) == text \in {TOKEN, WETH}

\* text.match(/^[a-fA-F0-9]{64}$/)
IsKeyFormat(text) == text \in KeyTexts \cup {ZeroKey}

\* new ethers.Wallet(text) returns
IsKey(text) == text \in KeyTexts

\* balances balanceOf can return, in base units
Balances == {0, 1}

\* the percent buttons of edit_amount_sell (0.2 and 1.0), in hundredths
Percents == {20, 100}

\* Math.floor(Number(balance) * percent)
SelectedAmount(balance, percent) == (balance * percent) \div 100

AwaitingStates ==
  { "AWAITING_TOKEN_INPUT_BUY", "AWAITING_TOKEN_INPUT_SELL",
    "AWAITING_AMOUNT_INPUT_BUY",
    "AWAITING_SLIPPAGE_INPUT_BUY", "AWAITING_SLIPPAGE_INPUT_SELL",
    "AWAITING_TRIGGER_PRICE_INPUT_BUY", "AWAITING_TRIGGER_PRICE_INPUT_SELL",
    "AWAITING_PRIVATE_KEY" }

\* userStates has no entry for the user
NoState == "none"

\* pendingOrders has no entry for the user
NoPending ==
  [ wallet |-> NoWallet, type |-> "none", tokenIn |-> NoToken,
    tokenOut |-> NoToken, amount |-> NULL, triggerPrice |-> NULL,
    slippage |-> 0, expiry |-> << >> ]

\* the draft buy_wallet_ / sell_wallet_ put into pendingOrders
NewPending(wallet, type) ==
  [ wallet |-> wallet, type |-> type,
    tokenIn |-> IF type = "BUY" THEN WETH ELSE NoToken,
    tokenOut |-> IF type = "BUY" THEN NoToken ELSE WETH,
    amount |-> NULL, triggerPrice |-> NULL, slippage |-> 1,
    expiry |-> OneHour ]

\* what the last handler sent: the value interpolated into the text of its
\* message (msg, "" for a fixed text) and the orders it listed
Answer(msg, listed) == [msg |-> msg, listed |-> listed]

NoAnswer == Answer("", {})

\* no document is stored under the _id
NoOrder == [OrderRecord(0, "BUY", 0, 0, NULL) EXCEPT !.status = "none"]

FreeSlots(store) == {o \in OrderIds : store[o].id = 0}

\* no handler has run: the Maps are empty, the acting user has no wallet
\* yet, every other user has one
QuietUi ==
  /\ userStates = [u \in Users |-> NoState]
  /\ pendingOrders = [u \in Users |-> NoPending]
  /\ selectedWallets = [u \in Users |-> NoWallet]
  /\ users = [u \in Users |-> IF u \in Actors THEN << >>
                              ELSE << WalletOf(KeyOf(u), "iv7") >>]
  /\ lastUi = NoAnswer
  /\ saving = [k \in CreateIds |-> NoOrder]

----------------------------------------------------------------------------
(* State of one pass of processOrdersLoop *)

\* list: the documents of activeOrders from the current one on; the for loop
\* works on its head
IdlePass ==
  [ pc |-> "idle", list |-> << >>, price |-> 0, fetchOk |-> TRUE,
    steps |-> NoPlan, s |-> 0, j |-> 0, tx_hash |-> NoHash, filled |-> FALSE,
    confirmed |-> 0 ]

DonePass == [IdlePass EXCEPT !.pc = "done"]

Doc(r) == Head(r.list)

\* value of the timer flag once a pass has started: setTimeout is only
\* called at the end of the pass
TimerAfterStart_interval == TRUE

TimerAfterStart == FALSE

\* observation of the price check that was just made (history variable):
\* set by the step that evaluates an order, cleared by every other step
NoEval == [p |-> 0]

\* observation of the awaited call of the loop that has just returned
\* (history variable): set by the step that takes the result, cleared by
\* every other step.  left is the number of documents the for loop still
\* had to go through, the current one included.
NoCall ==
  [ p |-> 0, o |-> 0, call |-> "none", ok |-> TRUE, left |-> 0, step |-> "none",
    s |-> 0, j |-> 0, confirmed |-> 0 ]

Call(p, name, ok) ==
  [ p |-> p,
    o |-> IF pass[p].list = << >> THEN 0 ELSE Doc(pass[p]).id,
    call |-> name, ok |-> ok, left |-> Len(pass[p].list),
    step |-> IF pass[p].pc \in {"send", "wait"}
             THEN pass[p].steps[pass[p].s].id ELSE "none",
    s |-> pass[p].s, j |-> pass[p].j, confirmed |-> pass[p].confirmed ]

\* state of one cancel_order_ callback
NoDoc == [id |-> 0, status |-> "none"]

IdleCancel == [pc |-> "idle", target |-> 0, doc |-> NoDoc, reply |-> "none"]

\* the handler has answered with reply and returned
DoneCancel(reply) == [IdleCancel EXCEPT !.pc = "done", !.reply = reply]

\* nothing has run yet: no pass, no cancel request, no message, the first
\* call of processOrdersLoop is due
Quiescent ==
  /\ pass = [p \in PassIds |-> IdlePass]
  /\ timer = TRUE
  /\ started = 0
  /\ now = 0
  /\ cancels = [c \in CancelIds |-> IdleCancel]
  /\ sent = [o \in OrderIds |-> [filled |-> 0, expired |-> 0]]
  /\ execCount = [o \in OrderIds |-> 0]
  /\ lastEval = NoEval
  /\ lastCall = NoCall
  /\ partial = [o \in OrderIds |-> FALSE]
  /\ QuietUi

StoredOrders(live) ==
  { f \in [OrderIds -> UNION { { OrderRecord(k, ty, tr, sl, ex) :
                ty \in {"BUY", "SELL"}, tr \in TriggerPrices,
                sl \in Slippages, ex \in Expiries } : k \in OrderIds }
                \cup { [OrderRecord(k, "BUY", 100, 1, NULL)
                          EXCEPT !.status = "CANCELLED"] : k \in OrderIds }] :
      /\ \A k \in OrderIds : f[k].id = k
      /\ \A k \in OrderIds : f[k].status = "ACTIVE" <=> k \in live }

\* the store holds one ACTIVE order, the others were cancelled before the
\* bot was started
Init ==
  /\ orders \in StoredOrders({1})
  /\ Quiescent

\* the store holds two ACTIVE orders
InitBatch ==
  /\ orders \in StoredOrders({1, 2})
  /\ Quiescent

----------------------------------------------------------------------------
(* processOrdersLoop *)

\* the timer set by setTimeout fires (or the first call at start-up) and the
\* pass awaits Order.find
StartPass(p) ==
  /\ timer
  /\ started < MaxPasses
  /\ p = started + 1
  /\ pass[p].pc = "idle"
  /\ pass' = [pass EXCEPT ![p].pc = "find"]
  /\ timer' = TimerAfterStart
  /\ started' = started + 1
  /\ UNCHANGED <<orders, now, cancels, sent, execCount, partial>>
  /\ lastCall' = NoCall
  /\ UNCHANGED uiVars
  /\ lastEval' = NoEval

\* end of the body of the for loop (also reached through the inner catch):
\* next order, or leave the loop and call setTimeout
Continue_abort(p, r) ==
  /\ pass' = [pass EXCEPT ![p] = DonePass]
  /\ timer' = TRUE

Continue(p, r) ==
  IF Len(r.list) > 1
  THEN /\ pass' = [pass EXCEPT ![p] =
                     [IdlePass EXCEPT !.pc = "price", !.list = Tail(r.list)]]
       /\ timer' = timer
  ELSE /\ pass' = [pass EXCEPT ![p] = DonePass]
       /\ timer' = TRUE

\* lines 1684-1693 up to the await of order.save()
ExpiryCheck_always(p, r) ==
  /\ pass' = [pass EXCEPT ![p] =
                [r EXCEPT !.pc = "saveCancel", !.list[1].status = "CANCELLED"]]
  /\ timer' = timer

ExpiryCheck(p, r) ==
  IF Expired(Doc(r), now)
  THEN /\ pass' = [pass EXCEPT ![p] =
                     [r EXCEPT !.pc = "saveCancel", !.list[1].status = "CANCELLED"]]
       /\ timer' = timer
  ELSE Continue(p, r)

\* Order.find({ status: "ACTIVE" }) returns or throws
FindReturn_stop(p) ==
  /\ pass[p].pc = "find"
  /\ \/ LET found == FindActive(orders) IN
          /\ IF found = << >>
             THEN pass' = [pass EXCEPT ![p] = DonePass] /\ timer' = TRUE
             ELSE /\ pass' = [pass EXCEPT ![p] =
                                [IdlePass EXCEPT !.pc = "price", !.list = found]]
                  /\ timer' = timer
          /\ lastCall' = Call(p, "find", TRUE)
          /\ UNCHANGED uiVars
     \/ /\ pass' = [pass EXCEPT ![p] = DonePass] /\ timer' = timer
        /\ lastCall' = Call(p, "find", FALSE)
        /\ UNCHANGED uiVars
  /\ UNCHANGED <<orders, started, now, cancels, sent, execCount, partial>>
  /\ lastEval' = NoEval

FindReturn(p) ==
  /\ pass[p].pc = "find"
  /\ \/ LET found == FindActive(orders) IN
          /\ IF found = << >>
             THEN pass' = [pass EXCEPT ![p] = DonePass] /\ timer' = TRUE
             ELSE /\ pass' = [pass EXCEPT ![p] =
                                [IdlePass EXCEPT !.pc = "price", !.list = found]]
                  /\ timer' = timer
          /\ lastCall' = Call(p, "find", TRUE)
          /\ UNCHANGED uiVars
     \/ /\ pass' = [pass EXCEPT ![p] = DonePass] /\ timer' = TRUE
        /\ lastCall' = Call(p, "find", FALSE)
        /\ UNCHANGED uiVars
  /\ UNCHANGED <<orders, started, now, cancels, sent, execCount, partial>>
  /\ lastEval' = NoEval

\* the condition of line 1642 is false: the block of lines 1646-1681 is
\* skipped and the expiry check follows
NotEligible_quote(p, r) ==
  /\ pass' = [pass EXCEPT ![p] = [r EXCEPT !.pc = "quote"]]
  /\ timer' = timer

NotEligible(p, r) == ExpiryCheck(p, r)

\* getLivePrice(tokenToWatch) returns (0 when the fetch failed), then the
\* price check
PriceReturn(p) ==
  /\ pass[p].pc = "price"
  /\ \E ok \in BOOLEAN, reported \in Feed(TokenToWatch(Doc(pass[p]))) :
       LET price == getLivePrice(ok, reported)
           r == [pass[p] EXCEPT !.price = price, !.fetchOk = ok] IN
         /\ IF PriceCheck(Doc(r), price)
            THEN pass' = [pass EXCEPT ![p] = [r EXCEPT !.pc = "quote"]] /\ timer' = timer
            ELSE NotEligible(p, r)
         /\ lastEval' = [p |-> p, doc |-> Doc(r), price |-> price, ok |-> ok,
                         token |-> TokenToWatch(Doc(r)), reported |-> reported,
                         dispatched |-> PriceCheck(Doc(r), price)]
         /\ lastCall' = Call(p, "price", ok)
         /\ UNCHANGED uiVars
  /\ UNCHANGED <<orders, started, now, cancels, sent, execCount, partial>>

\* getQuoteForSwap throws: the catch of the for loop body takes over
OnQuoteError_expire(p, r) == ExpiryCheck(p, r)

OnQuoteError(p, r) == Continue(p, r)

\* getQuoteForSwap returns the plan or throws
QuoteReturn(p) ==
  /\ pass[p].pc = "quote"
  /\ \/ /\ \E plan \in Plans :
             pass' = [pass EXCEPT ![p] = [@ EXCEPT !.pc = "wallet", !.steps = plan]]
        /\ timer' = timer
        /\ lastCall' = Call(p, "quote", TRUE)
        /\ UNCHANGED uiVars
     \/ /\ OnQuoteError(p, pass[p])
        /\ lastCall' = Call(p, "quote", FALSE)
        /\ UNCHANGED uiVars
  /\ UNCHANGED <<orders, started, now, cancels, sent, execCount, partial>>
  /\ lastEval' = NoEval

----------------------------------------------------------------------------
(* AbstractChainService.executeReservoirSwap, called from the pass *)

\* first position (step, item) at or after (s, j) that holds a transaction
\* item; s = Len(steps) + 1 when both for loops are exhausted
RECURSIVE NextPos(_, _, _)
NextPos(steps, s, j) ==
  IF s > Len(steps) THEN <<s, 1>>
  ELSE IF j <= steps[s].items THEN <<s, j>>
       ELSE NextPos(steps, s + 1, 1)

\* number of transactions of the plan that come before item j of step s
RECURSIVE ItemsBefore(_, _, _)
ItemsBefore(steps, s, j) ==
  IF s <= 1 THEN j - 1
  ELSE steps[s - 1].items + ItemsBefore(steps, s - 1, j)

\* the executor moves to position pos: the next sendTransaction, or the
\* return of tx_hash followed by order.status = "FILLED" and order.save()
ExecAt(p, r, pos) ==
  IF pos[1] > Len(r.steps)
  THEN /\ pass' = [pass EXCEPT ![p] =
                     [r EXCEPT !.pc = "saveFilled", !.s = pos[1], !.j = pos[2],
                               !.list[1].status = "FILLED"]]
       /\ execCount' = [execCount EXCEPT ![Doc(r).id] = @ + 1]
  ELSE /\ pass' = [pass EXCEPT ![p] =
                     [r EXCEPT !.pc = "send", !.s = pos[1], !.j = pos[2]]]
       /\ execCount' = execCount

\* sendTransaction throws: "throw err" of line 187 leaves the executor and
\* the catch of the for loop body takes over
OnSendError_resume(p, r) ==
  /\ pass' = [pass EXCEPT ![p] = [r EXCEPT !.pc = "send"]]
  /\ timer' = timer
  /\ execCount' = execCount

OnSendError(p, r) == Continue(p, r) /\ execCount' = execCount

\* txResponse.wait() throws: same way out
OnWaitError_swallow(p, r) ==
  ExecAt(p, r, NextPos(r.steps, r.s, r.j + 1)) /\ timer' = timer

OnWaitError(p, r) == Continue(p, r) /\ execCount' = execCount

\* history: the executor is left by an exception after r.confirmed
\* transactions of the plan were confirmed
BrokenOff(r) ==
  partial' = [partial EXCEPT ![Doc(r).id] = @ \/ r.confirmed > 0]

\* sendTransaction has returned the response: the executor awaits
\* txResponse.wait()
SendOk_nowait(p, r) ==
  ExecAt(p, r, NextPos(r.steps, r.s, r.j + 1)) /\ timer' = timer

SendOk(p, r) ==
  /\ pass' = [pass EXCEPT ![p] = [r EXCEPT !.pc = "wait"]]
  /\ timer' = timer
  /\ execCount' = execCount

\* getWallet (decrypt of the stored key) returns or throws
WalletReturn(p) ==
  /\ pass[p].pc = "wallet"
  /\ \/ /\ ExecAt(p, pass[p], NextPos(pass[p].steps, 1, 1)) /\ timer' = timer
        /\ lastCall' = Call(p, "wallet", TRUE)
        /\ UNCHANGED uiVars
     \/ /\ Continue(p, pass[p]) /\ execCount' = execCount
        /\ lastCall' = Call(p, "wallet", FALSE)
        /\ UNCHANGED uiVars
  /\ UNCHANGED <<orders, started, now, cancels, sent, partial>>
  /\ lastEval' = NoEval

\* signer.sendTransaction returns the response or throws
SendReturn(p) ==
  /\ pass[p].pc = "send"
  /\ \/ /\ SendOk(p, pass[p])
        /\ partial' = partial
        /\ lastCall' = Call(p, "send", TRUE)
        /\ UNCHANGED uiVars
     \/ /\ OnSendError(p, pass[p])
        /\ BrokenOff(pass[p])
        /\ lastCall' = Call(p, "send", FALSE)
        /\ UNCHANGED uiVars
  /\ UNCHANGED <<orders, started, now, cancels, sent>>
  /\ lastEval' = NoEval

\* txResponse.wait() returns the receipt or throws
WaitReturn(p) ==
  /\ pass[p].pc = "wait"
  /\ \/ LET r == pass[p]
            h == IF toLowerCase(r.steps[r.s].id) = "swap"
                 THEN <<r.s, r.j>> ELSE r.tx_hash
        IN /\ ExecAt(p, [r EXCEPT !.tx_hash = h, !.confirmed = @ + 1],
                     NextPos(r.steps, r.s, r.j + 1))
           /\ timer' = timer
           /\ partial' = partial
           /\ lastCall' = Call(p, "wait", TRUE)
           /\ UNCHANGED uiVars
     \/ /\ OnWaitError(p, pass[p])
        /\ BrokenOff(pass[p])
        /\ lastCall' = Call(p, "wait", FALSE)
        /\ UNCHANGED uiVars
  /\ UNCHANGED <<orders, started, now, cancels, sent>>
  /\ lastEval' = NoEval

----------------------------------------------------------------------------
(* processOrdersLoop after the executor *)

\* order.save() with status FILLED returns or throws
OnSaveFilledError_notify(p, r) ==
  /\ pass' = [pass EXCEPT ![p] = [r EXCEPT !.pc = "notifyFilled"]]
  /\ timer' = timer

OnSaveFilledError(p, r) == Continue(p, r)

SaveFilledReturn(p) ==
  /\ pass[p].pc = "saveFilled"
  /\ \/ /\ orders' = Save(orders, Doc(pass[p]), now)
        /\ pass' = [pass EXCEPT ![p].pc = "notifyFilled", ![p].filled = TRUE]
        /\ timer' = timer
        /\ lastCall' = Call(p, "saveFilled", TRUE)
        /\ UNCHANGED uiVars
     \/ /\ OnSaveFilledError(p, pass[p]) /\ orders' = orders
        /\ lastCall' = Call(p, "saveFilled", FALSE)
        /\ UNCHANGED uiVars
  /\ UNCHANGED <<started, now, cancels, sent, execCount, partial>>
  /\ lastEval' = NoEval

\* bot.sendMessage("Order Executed Successfully") returns or throws; on
\* return the expiry check follows
NotifyFilledReturn(p) ==
  /\ pass[p].pc = "notifyFilled"
  /\ \/ /\ sent' = [sent EXCEPT ![Doc(pass[p]).id].filled = @ + 1]
        /\ ExpiryCheck(p, pass[p])
        /\ lastCall' = Call(p, "notifyFilled", TRUE)
        /\ UNCHANGED uiVars
     \/ /\ Continue(p, pass[p]) /\ sent' = sent
        /\ lastCall' = Call(p, "notifyFilled", FALSE)
        /\ UNCHANGED uiVars
  /\ UNCHANGED <<orders, started, now, cancels, execCount, partial>>
  /\ lastEval' = NoEval

\* order.save() with status CANCELLED returns or throws
SaveCancelReturn(p) ==
  /\ pass[p].pc = "saveCancel"
  /\ \/ /\ orders' = Save(orders, Doc(pass[p]), now)
        /\ pass' = [pass EXCEPT ![p].pc = "notifyExpired"]
        /\ timer' = timer
        /\ lastCall' = Call(p, "saveCancel", TRUE)
        /\ UNCHANGED uiVars
     \/ /\ Continue(p, pass[p]) /\ orders' = orders
        /\ lastCall' = Call(p, "saveCancel", FALSE)
        /\ UNCHANGED uiVars
  /\ UNCHANGED <<started, now, cancels, sent, execCount, partial>>
  /\ lastEval' = NoEval

\* bot.sendMessage("Order expired and was cancelled") returns or throws
NotifyExpiredReturn(p) ==
  /\ pass[p].pc = "notifyExpired"
  /\ \/ /\ sent' = [sent EXCEPT ![Doc(pass[p]).id].expired = @ + 1]
        /\ lastCall' = Call(p, "notifyExpired", TRUE)
        /\ UNCHANGED uiVars
     \/ /\ sent' = sent
        /\ lastCall' = Call(p, "notifyExpired", FALSE)
        /\ UNCHANGED uiVars
  /\ Continue(p, pass[p])
  /\ UNCHANGED <<orders, started, now, cancels, execCount, partial>>
  /\ lastEval' = NoEval

----------------------------------------------------------------------------
(* callback_query cancel_order_<id> *)

\* a user presses the cancel button of an order; the handler awaits
\* Order.findById
CancelStart(c, o) ==
  /\ cancels[c].pc = "idle"
  /\ \A d \in CancelIds : d < c => cancels[d].pc # "idle"
  /\ cancels' = [cancels EXCEPT ![c] = [IdleCancel EXCEPT !.pc = "find", !.target = o]]
  /\ UNCHANGED <<orders, pass, timer, started, now, sent, execCount, partial>>
  /\ lastCall' = NoCall
  /\ UNCHANGED uiVars
  /\ lastEval' = NoEval

\* Order.findById returns the document or throws; a document that is not
\* ACTIVE ends the handler, otherwise order.status = "CANCELLED" and the
\* handler awaits order.save()
CancelFound(c) ==
  /\ cancels[c].pc = "find"
  /\ \/ LET doc == orders[cancels[c].target] IN
          IF doc.status # "ACTIVE"
          THEN cancels' = [cancels EXCEPT ![c] = DoneCancel("already")]
          ELSE cancels' = [cancels EXCEPT ![c].pc = "save",
                                          ![c].doc = [id |-> doc.id, status |-> "CANCELLED"]]
     \/ cancels' = [cancels EXCEPT ![c] = DoneCancel("error")]
  /\ UNCHANGED <<orders, pass, timer, started, now, sent, execCount, partial>>
  /\ lastCall' = NoCall
  /\ UNCHANGED uiVars
  /\ lastEval' = NoEval

\* order.save() of the cancel handler returns or throws
CancelSaved_delete(c) ==
  /\ cancels[c].pc = "save"
  /\ orders' = [orders EXCEPT ![cancels[c].doc.id].id = 0,
                              ![cancels[c].doc.id].status = "none"]
  /\ cancels' = [cancels EXCEPT ![c] = DoneCancel("cancelled")]
  /\ UNCHANGED <<pass, timer, started, now, sent, execCount, partial>>
  /\ lastCall' = NoCall
  /\ UNCHANGED uiVars
  /\ lastEval' = NoEval

CancelSaved(c) ==
  /\ cancels[c].pc = "save"
  /\ \/ /\ orders' = Save(orders, cancels[c].doc, now)
        /\ cancels' = [cancels EXCEPT ![c] = DoneCancel("cancelled")]
     \/ /\ orders' = orders
        /\ cancels' = [cancels EXCEPT ![c] = DoneCancel("error")]
  /\ UNCHANGED <<pass, timer, started, now, sent, execCount, partial>>
  /\ lastCall' = NoCall
  /\ UNCHANGED uiVars
  /\ lastEval' = NoEval

----------------------------------------------------------------------------

\* Date.now() advances
Tick ==
  /\ now < MaxTime
  /\ now' = now + 1
  /\ UNCHANGED <<orders, pass, timer, started, cancels, sent, execCount, partial>>
  /\ lastCall' = NoCall
  /\ UNCHANGED uiVars
  /\ lastEval' = NoEval

Next ==
  \/ \E p \in PassIds :
       \/ StartPass(p)
       \/ FindReturn(p)
       \/ PriceReturn(p)
       \/ QuoteReturn(p)
       \/ WalletReturn(p)
       \/ SendReturn(p)
       \/ WaitReturn(p)
       \/ SaveFilledReturn(p)
       \/ NotifyFilledReturn(p)
       \/ SaveCancelReturn(p)
       \/ NotifyExpiredReturn(p)
  \/ \E c \in CancelIds :
       \/ \E o \in OrderIds : CancelStart(c, o)
       \/ CancelFound(c)
       \/ CancelSaved(c)
  \/ Tick

Spec == Init /\ [][Next]_vars

\* the monitoring loop alone, with no cancel request
NextLoop ==
  \/ \E p \in PassIds :
       \/ StartPass(p)
       \/ FindReturn(p)
       \/ PriceReturn(p)
       \/ QuoteReturn(p)
       \/ WalletReturn(p)
       \/ SendReturn(p)
       \/ WaitReturn(p)
       \/ SaveFilledReturn(p)
       \/ NotifyFilledReturn(p)
       \/ SaveCancelReturn(p)
       \/ NotifyExpiredReturn(p)
  \/ Tick

SpecLoop == Init /\ [][NextLoop]_vars

\* the monitoring loop over a store with two ACTIVE orders
SpecBatch == InitBatch /\ [][NextLoop]_vars

\* txResponse.wait() is called with no timeout: when the transaction is never
\* mined the promise never settles and the pass stays at that await
Silent(p) ==
  /\ pass[p].pc = "wait"
  /\ pass' = [pass EXCEPT ![p].pc = "hung"]
  /\ UNCHANGED <<orders, timer, started, now, cancels, sent, execCount, partial>>
  /\ lastEval' = NoEval
  /\ lastCall' = NoCall
  /\ UNCHANGED uiVars

NextLive ==
  \/ NextLoop
  \/ \E p \in PassIds : Silent(p)

\* the event loop runs every callback whose promise has settled and every
\* timer that is due; whether the chain answers is up to the environment
SpecLive == Init /\ [][NextLive]_vars /\ WF_vars(NextLoop)

\* the monitoring loop when every awaited call returns or throws: the event
\* loop runs every callback whose promise has settled and every timer that
\* is due
SpecFair == Init /\ [][NextLoop]_vars /\ WF_vars(NextLoop)

\* the timer of setTimeout fires for every further pass: the loop never
\* ends.  The record of the last pass is used again; further passes are
\* followed while no plan has been executed in full.
StartPassAgain(p) ==
  /\ timer
  /\ started = MaxPasses
  /\ p = MaxPasses
  /\ pass[p].pc = "done"
  /\ \A o \in OrderIds : execCount[o] = 0
  /\ pass' = [pass EXCEPT ![p].pc = "find"]
  /\ timer' = TimerAfterStart
  /\ UNCHANGED <<orders, started, now, cancels, sent, execCount, partial>>
  /\ lastCall' = NoCall
  /\ UNCHANGED uiVars
  /\ lastEval' = NoEval

NextForever ==
  \/ NextLoop
  \/ \E p \in PassIds : StartPassAgain(p)

\* the monitoring loop without an end, under the same scheduling
SpecForever == Init /\ [][NextForever]_vars /\ WF_vars(NextForever)

\* getQuoteForSwap returns the JSON body of the response as it is: nothing
\* checks that json.steps holds a step, or a step with the id "swap"
BarePlans ==
  { << >>,
    << [id |-> "approve", items |-> 1] >> }

\* getQuoteForSwap returns a plan with no swap step
QuoteReturnBare(p) ==
  /\ pass[p].pc = "quote"
  /\ \E plan \in BarePlans :
       pass' = [pass EXCEPT ![p] = [@ EXCEPT !.pc = "wallet", !.steps = plan]]
  /\ timer' = timer
  /\ lastCall' = Call(p, "quote", TRUE)
  /\ lastEval' = NoEval
  /\ UNCHANGED uiVars
  /\ UNCHANGED <<orders, started, now, cancels, sent, execCount, partial>>

NextPlans ==
  \/ NextLoop
  \/ \E p \in PassIds : QuoteReturnBare(p)

\* the monitoring loop with every plan the quote service can answer
SpecPlans == Init /\ [][NextPlans]_vars

----------------------------------------------------------------------------
(* The Telegram handlers *)

\* the store holds a FILLED order of the acting user or an ACTIVE order of
\* another user, cancelled orders of the other user, and room for one more
InitUI ==
  /\ \E owner \in Users :
       LET st == IF owner \in Actors THEN "FILLED" ELSE "ACTIVE" IN
       orders = [o \in OrderIds |->
                   IF o = NumOrders THEN NoOrder
                   ELSE IF o = 1
                        THEN [OrderRecord(1, "BUY", 100, 1, NULL) EXCEPT
                                !.userId = owner,
                                !.wallet = WalletOf(KeyOf(owner), "iv7"),
                                !.status = st]
                        ELSE [OrderRecord(o, "BUY", 100, 1, NULL) EXCEPT
                                !.userId = 2,
                                !.wallet = WalletOf(KeyOf(2), "iv7"),
                                !.status = "CANCELLED"]]
  /\ Quiescent

\* buy_wallet_<address> / sell_wallet_<address>: start a draft with the
\* i-th wallet of the user
ChooseWallet(u, type, i) ==
  /\ FreeSlots(orders) # {}
  /\ i \in 1..Len(users[u])
  /\ pendingOrders' = [pendingOrders EXCEPT ![u] = NewPending(users[u][i], type)]
  /\ selectedWallets' = IF type = "SELL"
                        THEN [selectedWallets EXCEPT ![u] = users[u][i]]
                        ELSE selectedWallets
  /\ lastUi' = Answer("", {})
  /\ UNCHANGED <<orders, now, userStates, users>>
  /\ UNCHANGED <<loopVars, saving>>

\* edit_token_*, edit_amount_buy, slippage_custom_*, trigger_price_*,
\* setupwallet: the next text of the user is awaited as that value
Press(u, st) ==
  /\ userStates' = [userStates EXCEPT ![u] = st]
  /\ lastUi' = Answer("", {})
  /\ UNCHANGED <<orders, now, pendingOrders, selectedWallets, users>>
  /\ UNCHANGED <<loopVars, saving>>

\* slippage_auto_buy / slippage_auto_sell
SlippageAuto(u) ==
  /\ pendingOrders' = IF pendingOrders[u] = NoPending THEN pendingOrders
                      ELSE [pendingOrders EXCEPT ![u].slippage = 1]
  /\ lastUi' = Answer("", {})
  /\ UNCHANGED <<orders, now, userStates, selectedWallets, users>>
  /\ UNCHANGED <<loopVars, saving>>

\* expiry_buy_<value> / expiry_sell_<value>: the value is stored as it is
SetExpiry(u, value) ==
  /\ pendingOrders' = IF pendingOrders[u] = NoPending THEN pendingOrders
                      ELSE [pendingOrders EXCEPT ![u].expiry = value]
  /\ lastUi' = Answer("", {})
  /\ UNCHANGED <<orders, now, userStates, selectedWallets, users>>
  /\ UNCHANGED <<loopVars, saving>>

\* amount_sell_percent_<percent>; getBalance answers balance or throws
PercentAmount(u, percent) ==
  /\ \E ok \in BOOLEAN, balance \in Balances :
       pendingOrders' =
         IF \/ selectedWallets[u] = NoWallet
            \/ pendingOrders[u].tokenIn = NoToken
            \/ ~ok
            \/ balance = 0
         THEN pendingOrders
         ELSE [pendingOrders EXCEPT ![u].amount = SelectedAmount(balance, percent)]
  /\ lastUi' = Answer("", {})
  /\ UNCHANGED <<orders, now, userStates, selectedWallets, users>>
  /\ UNCHANGED <<loopVars, saving>>

\* the field a text is awaited for
Awaited(st) ==
  CASE st = "AWAITING_TOKEN_INPUT_BUY" -> "tokenOut"
    [] st = "AWAITING_TOKEN_INPUT_SELL" -> "tokenIn"
    [] st = "AWAITING_AMOUNT_INPUT_BUY" -> "amount"
    [] st \in {"AWAITING_SLIPPAGE_INPUT_BUY", "AWAITING_SLIPPAGE_INPUT_SELL"}
         -> "slippage"
    [] st \in {"AWAITING_TRIGGER_PRICE_INPUT_BUY",
               "AWAITING_TRIGGER_PRICE_INPUT_SELL"} -> "triggerPrice"
    [] OTHER -> "none"

\* the checks of the message handler on the text of each state
Accepted_nocap(st, text) ==
  CASE Awaited(st) \in {"tokenOut", "tokenIn"} -> IsAddress(text)
    [] Awaited(st) \in {"amount", "triggerPrice", "slippage"} ->
         ~(isNaN(parseFloat(text)) \/ parseFloat(text) <= 0)
    [] OTHER -> FALSE

Accepted(st, text) ==
  CASE Awaited(st) \in {"tokenOut", "tokenIn"} -> IsAddress(text)
    [] Awaited(st) \in {"amount", "triggerPrice"} ->
         ~(isNaN(parseFloat(text)) \/ parseFloat(text) <= 0)
    [] Awaited(st) = "slippage" ->
         ~(isNaN(parseFloat(text)) \/ parseFloat(text) <= 0
           \/ parseFloat(text) > 100)
    [] OTHER -> FALSE

\* the value the message handler assigns to the field
Assigned(st, text) ==
  CASE Awaited(st) \in {"tokenOut", "tokenIn"} -> text
    [] Awaited(st) = "amount" -> parseFloat(text) * E18
    [] OTHER -> parseFloat(text)

\* error.message of an error thrown by new ethers.Wallet or User.updateOne
ErrorText == "error"

\* bot.on("message") in state AWAITING_PRIVATE_KEY; User.updateOne answers
\* or throws
ImportKey_plain(u, text) ==
  /\ Len(users[u]) < MaxWallets
  /\ \E iv \in Ivs, dbOk \in BOOLEAN :
    IF ~IsKeyFormat(text)
    THEN /\ lastUi' = Answer("", {})
         /\ UNCHANGED <<users, userStates>>
    ELSE IF ~IsKey(text) \/ ~dbOk
    THEN /\ lastUi' = Answer(ErrorText, {})
         /\ UNCHANGED <<users, userStates>>
    ELSE /\ users' = [users EXCEPT ![u] = Append(@, [WalletOf(text, iv) EXCEPT !.encryptedKey = text])]
         /\ userStates' = [userStates EXCEPT ![u] = NoState]
         /\ lastUi' = Answer(AddressOf(text), {})

ImportKey(u, text) ==
  /\ Len(users[u]) < MaxWallets
  /\ \E iv \in Ivs, dbOk \in BOOLEAN :
    IF ~IsKeyFormat(text)
    THEN /\ lastUi' = Answer("", {})
         /\ UNCHANGED <<users, userStates>>
    ELSE IF ~IsKey(text) \/ ~dbOk
    THEN /\ lastUi' = Answer(ErrorText, {})
         /\ UNCHANGED <<users, userStates>>
    ELSE /\ users' = [users EXCEPT ![u] = Append(@, WalletOf(text, iv))]
         /\ userStates' = [userStates EXCEPT ![u] = NoState]
         /\ lastUi' = Answer(AddressOf(text), {})

\* bot.on("message"): a text that does not start with /
Message(u, text) ==
  LET state == userStates[u] IN
    /\ IF state = "AWAITING_PRIVATE_KEY"
       THEN ImportKey(u, text) /\ UNCHANGED pendingOrders
       ELSE IF state = NoState \/ ~Accepted(state, text)
                 \/ pendingOrders[u] = NoPending
       THEN /\ lastUi' = Answer("", {})
            /\ UNCHANGED <<pendingOrders, userStates, users>>
       ELSE /\ pendingOrders' = [pendingOrders EXCEPT
                                   ![u][Awaited(state)] = Assigned(state, text)]
            /\ userStates' = [userStates EXCEPT ![u] = NoState]
            /\ lastUi' = Answer(IF Awaited(state) \in {"tokenIn", "tokenOut"}
                                THEN text ELSE "", {})
            /\ UNCHANGED users
    /\ UNCHANGED <<orders, now, selectedWallets>>
    /\ UNCHANGED <<loopVars, saving>>

\* the validators of orderSchema: every required path has a value
Validates(doc) ==
  /\ doc.tokenIn # NoToken
  /\ doc.tokenOut # NoToken
  /\ doc.amount # NULL
  /\ doc.triggerPrice # NULL

\* new Order({...}) of create_order_* under a fresh _id
NewOrder(id, u, order, t) ==
  [ id |-> id, userId |-> u, wallet |-> order.wallet, type |-> order.type,
    tokenIn |-> order.tokenIn, tokenOut |-> order.tokenOut,
    amount |-> order.amount, triggerPrice |-> order.triggerPrice,
    slippage |-> order.slippage, status |-> "ACTIVE",
    expiry |-> ExpiryValue(order.expiry, t), updatedAt |-> t ]

\* create_order_buy / create_order_sell at time t (Date.now() is read once);
\* newOrder.save() validates and writes, or throws
CreateOrder(u) ==
  LET order == pendingOrders[u]
      id == CHOOSE o \in FreeSlots(orders) : TRUE IN
    /\ FreeSlots(orders) # {}
    /\ \E dbOk \in BOOLEAN, t \in now..MaxTime :
         /\ now' = t
         /\ IF order = NoPending
            THEN UNCHANGED <<orders, pendingOrders>>
            ELSE IF order.expiry # NONE /\ parseExpiry(order.expiry) = Thrown
            THEN \* thrown outside the try: the handler ends without an answer
                 UNCHANGED <<orders, pendingOrders>>
            ELSE IF dbOk /\ Validates(NewOrder(id, u, order, t))
            THEN /\ orders' = [orders EXCEPT ![id] = NewOrder(id, u, order, t)]
                 /\ pendingOrders' = [pendingOrders EXCEPT ![u] = NoPending]
            ELSE UNCHANGED <<orders, pendingOrders>>
    /\ lastUi' = Answer("", {})
    /\ UNCHANGED <<userStates, selectedWallets, users>>
    /\ UNCHANGED <<loopVars, saving>>

\* Order.find({ userId: userId, status: "ACTIVE" })
FindActiveOf_any(store, u) ==
  {o \in OrderIds : store[o].id = o /\ store[o].status = "ACTIVE"}

FindActiveOf(store, u) ==
  {o \in OrderIds : store[o].id = o /\ store[o].userId = u
                    /\ store[o].status = "ACTIVE"}

\* viewallorders: one message for each order found
ViewAllOrders(u) ==
  /\ lastUi' = Answer("", FindActiveOf(orders, u))
  /\ UNCHANGED <<orders, now, userStates, pendingOrders, selectedWallets, users>>
  /\ UNCHANGED <<loopVars, saving>>

\* the handlers of a user who leaves the expiry of a draft as it is
NextUI ==
  \E u \in Actors :
    \/ \E type \in {"BUY", "SELL"}, i \in 1..MaxWallets : ChooseWallet(u, type, i)
    \/ \E st \in AwaitingStates : Press(u, st)
    \/ \E text \in Texts : Message(u, text)
    \/ SlippageAuto(u)
    \/ \E percent \in Percents : PercentAmount(u, percent)
    \/ CreateOrder(u)
    \/ ViewAllOrders(u)

SpecUI == InitUI /\ [][NextUI]_vars

\* the texts of a user who fills a draft with one value for each field
PlainTexts == {TOKEN, "5", NewKey}

\* the handlers of a user who fills a draft by text, chooses its expiry and
\* creates the order
NextExpiry ==
  \E u \in Actors :
    \/ \E type \in {"BUY", "SELL"}, i \in 1..MaxWallets : ChooseWallet(u, type, i)
    \/ \E st \in AwaitingStates : Press(u, st)
    \/ \E text \in PlainTexts : Message(u, text)
    \/ \E value \in ExpiryTexts : SetExpiry(u, value)
    \/ CreateOrder(u)

SpecExpiry == InitUI /\ [][NextExpiry]_vars

\* cancel_order_<id> pressed by user u (query.from.id), as one step:
\* Order.findById(orderId), the status check and order.save(); the store
\* answers or throws
CancelOrder(u, o) ==
  /\ \E dbOk \in BOOLEAN :
       orders' = IF dbOk /\ orders[o].id = o /\ orders[o].status = "ACTIVE"
                 THEN Save(orders, [id |-> o, status |-> "CANCELLED"], now)
                 ELSE orders
  /\ lastUi' = Answer("", {})
  /\ UNCHANGED <<now, userStates, pendingOrders, selectedWallets, users>>
  /\ UNCHANGED <<loopVars, saving>>

\* the handlers of a user who also presses cancel buttons; callback data
\* carries the _id, whichever message the button was on
NextOwner ==
  \/ NextUI
  \/ \E u \in Actors, o \in OrderIds : CancelOrder(u, o)

SpecOwner == InitUI /\ [][NextOwner]_vars

\* create_order_buy / create_order_sell up to the await of newOrder.save():
\* the draft is read from pendingOrders and the document is built; the
\* entry of pendingOrders stays until the save has returned
CreateStart(k, u) ==
  LET order == pendingOrders[u] IN
    /\ saving[k] = NoOrder
    /\ \A d \in CreateIds : d < k => saving[d] # NoOrder
    /\ Cardinality(FreeSlots(orders))
         > Cardinality({d \in CreateIds : saving[d] # NoOrder})
    /\ \E t \in now..MaxTime :
         /\ now' = t
         /\ saving' = IF \/ order = NoPending
                         \/ order.expiry # NONE /\ parseExpiry(order.expiry) = Thrown
                      THEN saving
                      ELSE [saving EXCEPT ![k] = NewOrder(0, u, order, t)]
    /\ lastUi' = Answer("", {})
    /\ UNCHANGED <<orders, userStates, pendingOrders, selectedWallets, users>>
    /\ UNCHANGED loopVars

\* newOrder.save() validates and writes, or throws; after a write
\* pendingOrders.delete(userId)
CreateSaved(k) ==
  LET doc == saving[k]
      id == CHOOSE o \in FreeSlots(orders) : TRUE IN
    /\ doc # NoOrder
    /\ \E dbOk \in BOOLEAN :
         IF dbOk /\ Validates(doc)
         THEN /\ orders' = [orders EXCEPT ![id] = [doc EXCEPT !.id = id]]
              /\ pendingOrders' = [pendingOrders EXCEPT ![doc.userId] = NoPending]
         ELSE UNCHANGED <<orders, pendingOrders>>
    /\ saving' = [saving EXCEPT ![k] = NoOrder]
    /\ lastUi' = Answer("", {})
    /\ UNCHANGED <<now, userStates, selectedWallets, users>>
    /\ UNCHANGED loopVars

\* drafts with every required field set, as the buttons and texts of the
\* handlers leave them
Drafts ==
  { [NewPending(WalletOf(NewKey, "iv7"), "BUY") EXCEPT
       !.tokenOut = TOKEN, !.amount = 5 * E18, !.triggerPrice = tr,
       !.slippage = sl] : tr \in {5, 150}, sl \in {1, 5} }
  \cup
  { [NewPending(WalletOf(NewKey, "iv7"), "SELL") EXCEPT
       !.tokenIn = TOKEN, !.amount = SelectedAmount(1, 100), !.triggerPrice = tr,
       !.slippage = sl] : tr \in {5, 150}, sl \in {1, 5} }

\* the store is empty, the acting user has imported a wallet and filled one
\* draft
InitCreate ==
  /\ orders = [o \in OrderIds |-> NoOrder]
  /\ pass = [p \in PassIds |-> IdlePass]
  /\ timer = TRUE
  /\ started = 0
  /\ now = 0
  /\ cancels = [c \in CancelIds |-> IdleCancel]
  /\ sent = [o \in OrderIds |-> [filled |-> 0, expired |-> 0]]
  /\ execCount = [o \in OrderIds |-> 0]
  /\ lastEval = NoEval
  /\ lastCall = NoCall
  /\ partial = [o \in OrderIds |-> FALSE]
  /\ userStates = [u \in Users |-> NoState]
  /\ \E draft \in Drafts :
       pendingOrders = [u \in Users |-> IF u \in Actors THEN draft ELSE NoPending]
  /\ \E ty \in {"BUY", "SELL"} :
       selectedWallets = [u \in Users |-> IF u \in Actors /\ ty = "SELL"
                                         THEN WalletOf(NewKey, "iv7") ELSE NoWallet]
  /\ users = [u \in Users |-> IF u \in Actors THEN << WalletOf(NewKey, "iv7") >>
                               ELSE << WalletOf(KeyOf(u), "iv7") >>]
  /\ lastUi = NoAnswer
  /\ saving = [k \in CreateIds |-> NoOrder]

\* the create button pressed again and again on the one draft, and the
\* order list
NextCreate ==
  \/ \E k \in CreateIds, u \in Actors : CreateStart(k, u)
  \/ \E k \in CreateIds : CreateSaved(k)
  \/ \E u \in Actors : ViewAllOrders(u)

SpecCreate == InitCreate /\ [][NextCreate]_vars

\* the store is empty and the acting user has imported two wallets
InitWallets ==
  /\ orders = [o \in OrderIds |-> NoOrder]
  /\ pass = [p \in PassIds |-> IdlePass]
  /\ timer = TRUE
  /\ started = 0
  /\ now = 0
  /\ cancels = [c \in CancelIds |-> IdleCancel]
  /\ sent = [o \in OrderIds |-> [filled |-> 0, expired |-> 0]]
  /\ execCount = [o \in OrderIds |-> 0]
  /\ lastEval = NoEval
  /\ lastCall = NoCall
  /\ partial = [o \in OrderIds |-> FALSE]
  /\ userStates = [u \in Users |-> NoState]
  /\ pendingOrders = [u \in Users |-> NoPending]
  /\ selectedWallets = [u \in Users |-> NoWallet]
  /\ users = [u \in Users |->
                IF u \in Actors
                THEN << WalletOf(KeyOf(u), "iv7"), WalletOf(NewKey, "iv7") >>
                ELSE << WalletOf(KeyOf(u), "iv7") >>]
  /\ lastUi = NoAnswer
  /\ saving = [k \in CreateIds |-> NoOrder]

\* the handlers of a user who chooses among two wallets and fills a draft
NextWallets ==
  \E u \in Actors :
    \/ \E type \in {"BUY", "SELL"}, i \in 1..2 : ChooseWallet(u, type, i)
    \/ \E st \in AwaitingStates : Press(u, st)
    \/ \E text \in PlainTexts : Message(u, text)
    \/ \E percent \in Percents : PercentAmount(u, percent)

SpecWallets == InitWallets /\ [][NextWallets]_vars

TypeOK ==
  /\ \A o \in OrderIds : orders[o].status \in {"ACTIVE", "FILLED", "CANCELLED"}
  /\ timer \in BOOLEAN
  /\ now \in 0..MaxTime
  /\ \A p \in PassIds :
       /\ pass[p].pc \in {"idle", "find", "price", "quote", "wallet", "send", "wait",
                          "saveFilled", "notifyFilled", "saveCancel",
                          "notifyExpired", "done", "hung"}
       /\ pass[p].confirmed \in 0..3
  /\ \A o \in OrderIds : partial[o] \in BOOLEAN
  /\ lastCall.p \in 0..MaxPasses

----------------------------------------------------------------------------
(* Properties *)

Terminal == {"FILLED", "CANCELLED"}

\* the pass is working on its current order after the price check
InFlightPcs == {"quote", "wallet", "send", "wait"}
AfterCheckPcs ==
  InFlightPcs \cup {"saveFilled", "notifyFilled", "saveCancel", "notifyExpired"}

\* C1: once the stored status of an order is FILLED or CANCELLED, no step
\* changes it.
C1_TerminalStatusNeverChanges ==
  [][\A o \in OrderIds :
       orders[o].status \in Terminal => orders'[o].status = orders[o].status]_vars

\* C2: the swap plan of an order is driven to full on-chain success at most
\* once over a run.
C2_ExecutedAtMostOnce == \A o \in OrderIds : execCount[o] <= 1

\* C3: when the cancel handler writes and the scheduler has meanwhile stored
\* the order as FILLED, the write changes nothing and the reply is "already
\* cancelled or filled".
C3_CancelDoesNotOverwrite ==
  [][\A c \in CancelIds :
       (cancels[c].pc = "save" /\ cancels'[c].pc = "done"
          /\ orders[cancels[c].target].status = "FILLED")
       => (orders' = orders /\ cancels'[c].reply = "already")]_vars

\* C4: the write of FILLED takes effect only if the stored status is still
\* ACTIVE; otherwise it leaves the store as it is.
C4_FilledWriteIsGuarded ==
  [][\A p \in PassIds :
       (pass[p].pc = "saveFilled" /\ pass'[p] # pass[p]
          /\ orders[Doc(pass[p]).id].status # "ACTIVE")
       => orders' = orders]_vars

\* C5: at any time at most one execution attempt (quote request and
\* transaction submissions) is in flight for an order id.
C5_OneAttemptInFlight ==
  \A o \in OrderIds :
    Cardinality({ p \in PassIds : pass[p].pc \in InFlightPcs
                                    /\ Doc(pass[p]).id = o }) <= 1

\* a second pass has an execution attempt in flight for an order that an
\* earlier pass already attempted
C5_Witness ==
  /\ pass[1].pc = "done"
  /\ pass[2].pc = "wait"
  /\ execCount[Doc(pass[2]).id] = 1

\* C6: after a failed price fetch the pass does nothing more for that order:
\* no quote, no transaction, no status write.
C6_FetchFailureSkipsOrder ==
  \A p \in PassIds : pass[p].pc \in AfterCheckPcs => pass[p].fetchOk

C9_NoExpiryAfterFill ==
  \A p \in PassIds : pass[p].pc \in {"saveCancel", "notifyExpired"} => ~pass[p].filled

Running(p) == pass[p].pc \notin {"idle", "done"}

\* pass p has left order o: it is at the price fetch of the next fetched
\* document, or past the for loop
HasLeft(p, left) ==
  /\ pass[p].pc \in {"price", "done"}
  /\ Len(pass[p].list) = left - 1

\* C11: no step of the scheduler stores CANCELLED for an order whose stored
\* expiry is null, whatever the time and the number of passes.
C11_NoExpiryNeverAutoCancelled ==
  [][\A o \in OrderIds :
       (orders[o].expiry = NULL /\ orders[o].status # "CANCELLED")
       => orders'[o].status # "CANCELLED"]_vars

\* the last pass has evaluated an order without expiry after time has
\* advanced, and has left it ACTIVE
C11_Witness ==
  /\ orders[1].expiry = NULL
  /\ orders[1].status = "ACTIVE"
  /\ now > 0
  /\ pass[MaxPasses].pc = "done"
  /\ lastCall.p = MaxPasses /\ lastCall.o = 1 /\ lastCall.call = "price"

\* C12: when sendTransaction or wait fails for a transaction of the plan,
\* the pass submits nothing more of that plan, leaves the order, and the
\* stored status of the order is still ACTIVE.
C12_FailedTxAbortsPlan ==
  (lastCall.call \in {"send", "wait"} /\ ~lastCall.ok)
  => /\ HasLeft(lastCall.p, lastCall.left)
     /\ orders[lastCall.o].status = "ACTIVE"
     /\ \A p \in PassIds : pass[p].pc \in {"send", "wait", "saveFilled", "notifyFilled"}
                             => Doc(pass[p]).id # lastCall.o

\* the submission of the first of the two approve transactions has failed,
\* with further transactions of the plan still to come
C12_Witness ==
  /\ lastCall.call = "send" /\ ~lastCall.ok
  /\ lastCall.step = "approve" /\ lastCall.j = 1
  /\ orders[lastCall.o].status = "ACTIVE"

\* C13: a transaction is submitted only when every transaction before it in
\* plan order (all items of the earlier steps, the earlier items of its own
\* step) has been confirmed, and only positions of the plan are submitted.
C13_SubmittedInPlanOrder ==
  \A p \in PassIds :
    pass[p].pc \in {"send", "wait"}
    => /\ pass[p].s \in 1..Len(pass[p].steps)
       /\ pass[p].j \in 1..pass[p].steps[pass[p].s].items
       /\ pass[p].confirmed = ItemsBefore(pass[p].steps, pass[p].s, pass[p].j)

\* the transaction of step 2 is being submitted after both transactions of
\* step 1 were confirmed
C13_Witness ==
  \E p \in PassIds :
    /\ pass[p].pc = "send"
    /\ pass[p].s = 2
    /\ pass[p].steps[1].items = 2
    /\ pass[p].confirmed = 2

\* C14: when getQuoteForSwap fails for an order that passed the price check,
\* the stored status stays ACTIVE, the pass leaves the order without
\* submitting a transaction, and Order.find of a later pass returns it.
C14_QuoteFailureLeavesActive ==
  (lastCall.call = "quote" /\ ~lastCall.ok)
  => /\ HasLeft(lastCall.p, lastCall.left)
     /\ orders[lastCall.o].status = "ACTIVE"
     /\ \E k \in 1..Len(FindActive(orders)) : FindActive(orders)[k].id = lastCall.o
     /\ \A p \in PassIds : pass[p].pc \in AfterCheckPcs => Doc(pass[p]).id # lastCall.o

\* the quote request of the first pass has failed for an order that is
\* expired by now
C14_Witness ==
  /\ lastCall.call = "quote" /\ ~lastCall.ok /\ lastCall.p = 1
  /\ Expired(orders[lastCall.o], now)
  /\ orders[lastCall.o].status = "ACTIVE"

\* C15: an order stored as FILLED carries its execution receipt, the hash
\* of the swap transaction, in the store.
C15_ReceiptRecorded ==
  \A o \in OrderIds :
    orders[o].status = "FILLED"
    => \E f \in {"receipt", "tx_hash", "txHash"} : f \in DOMAIN orders[o]

\* C16: while a pass still has fetched orders after the current one, a step
\* on the current order (failed calls included) either stays on it or moves
\* to the price fetch of the next fetched order; the pass does not end.
C16_FailureKeepsSweep ==
  [][\A p \in PassIds :
       (pass[p].pc \notin {"idle", "find", "done"} /\ Len(pass[p].list) > 1
          /\ pass'[p] # pass[p])
       => /\ pass'[p].pc \notin {"idle", "find", "done"}
          /\ \/ Tail(pass'[p].list) = Tail(pass[p].list)
             \/ pass'[p].list = Tail(pass[p].list) /\ pass'[p].pc = "price"]_vars

\* a call made for the first of two fetched orders has thrown and the pass
\* is fetching the price of the second
C16_Witness ==
  /\ lastCall.call \in {"quote", "wallet", "send", "wait", "saveFilled",
                        "notifyFilled", "saveCancel", "notifyExpired"}
  /\ ~lastCall.ok
  /\ lastCall.left = 2
  /\ pass[lastCall.p].pc = "price"
  /\ Len(pass[lastCall.p].list) = 1

\* C17: at most one pass is running, a pass has started only if the one
\* before it has ended, and the timer of the next pass is pending only while
\* no pass is running.
C17_PassesDoNotOverlap ==
  /\ \A p, q \in PassIds : (Running(p) /\ Running(q)) => p = q
  /\ \A p \in PassIds : (p > 1 /\ pass[p].pc # "idle") => pass[p - 1].pc = "done"
  /\ timer => \A p \in PassIds : ~Running(p)

\* the second pass writes a status while the first has ended
C17_Witness ==
  /\ pass[1].pc = "done"
  /\ pass[2].pc \in {"saveFilled", "saveCancel"}
  /\ ~timer

\* C18: a pass whose wait for a confirmation is never answered is cut off
\* and completes.
C18_SilentCallIsCutOff == (pass[1].pc = "hung") ~> (pass[1].pc = "done")

\* C19: when the submission of a transaction fails after earlier
\* transactions of the plan were confirmed, the stored status stays ACTIVE
\* and the pass leaves the order; a pass that is at the price fetch or the
\* quote request of an order holds no plan and no progress of an earlier
\* execution.
C19_PartialFailureStartsAfresh ==
  /\ (lastCall.call = "send" /\ ~lastCall.ok /\ lastCall.confirmed > 0)
     => /\ HasLeft(lastCall.p, lastCall.left)
        /\ orders[lastCall.o].status = "ACTIVE"
  /\ \A p \in PassIds :
       pass[p].pc \in {"price", "quote"}
       => /\ pass[p].steps = NoPlan
          /\ pass[p].s = 0 /\ pass[p].j = 0
          /\ pass[p].confirmed = 0
          /\ pass[p].tx_hash = NoHash
  /\ \A p \in PassIds :
       (pass[p].pc = "wallet" /\ lastCall.p = p) => lastCall.call = "quote"

\* the second pass has received a plan for an order whose execution was
\* broken off in the first pass after a confirmed transaction
C19_Witness ==
  /\ partial[1]
  /\ execCount[1] = 0
  /\ pass[1].pc = "done"
  /\ pass[2].pc = "wallet"
  /\ pass[2].confirmed = 0
  /\ Doc(pass[2]).id = 1

Stored(store, o) == store[o].id = o

\* the fields of a document that are fixed at creation
Fixed(doc) ==
  [ id |-> doc.id, userId |-> doc.userId, wallet |-> doc.wallet, type |-> doc.type,
    tokenIn |-> doc.tokenIn, tokenOut |-> doc.tokenOut, amount |-> doc.amount,
    triggerPrice |-> doc.triggerPrice, slippage |-> doc.slippage,
    expiry |-> doc.expiry ]

\* C21: when the price check of an order fails, the pass requests no plan and
\* submits no transaction for it: it goes to the CANCELLED write if the
\* order is expired, and otherwise leaves the order, whose stored status is
\* still ACTIVE.
C21_NotEligibleIsNotExecuted ==
  (lastEval.p # 0 /\ ~lastEval.dispatched)
  => /\ pass[lastEval.p].pc \notin InFlightPcs \cup {"saveFilled", "notifyFilled"}
     /\ orders[lastEval.doc.id].status = "ACTIVE"
     /\ IF Expired(lastEval.doc, now)
        THEN pass[lastEval.p].pc = "saveCancel"
        ELSE HasLeft(lastEval.p, lastCall.left)

\* a price outside the band was reported for an order that is not expired,
\* and the pass has left the order ACTIVE
C21_Witness ==
  /\ lastEval.p # 0 /\ ~lastEval.dispatched /\ lastEval.ok
  /\ ~Expired(lastEval.doc, now)
  /\ pass[lastEval.p].pc = "done"
  /\ orders[lastEval.doc.id].status = "ACTIVE"

\* C23: no step of the scheduler, the executor or the cancel handler changes
\* a field of a stored order other than status and updatedAt.
C23_OnlyStatusChanges ==
  [][\A o \in OrderIds : Fixed(orders'[o]) = Fixed(orders[o])]_vars

\* the scheduler and the cancel handler have both written the status of
\* the order
C23_Witness ==
  /\ orders[1].status = "CANCELLED"
  /\ orders[1].updatedAt > 0
  /\ execCount[1] = 1
  /\ \E c \in CancelIds : cancels[c].reply = "cancelled"

\* C26: the price an order is checked against is the one the oracle reports
\* for tokenOut of a BUY order and for tokenIn of a SELL order.
C26_WatchedTokenIsPriced ==
  lastEval.p # 0
  => LET watched == IF lastEval.doc.type = "BUY" THEN lastEval.doc.tokenOut
                                                ELSE lastEval.doc.tokenIn IN
       /\ lastEval.token = watched
       /\ lastEval.reported \in Feed(watched)
       /\ lastEval.ok => lastEval.price = lastEval.reported

\* a BUY order, whose tokenIn is the wrapped native token, was checked
\* against the price of its tokenOut
C26_Witness ==
  /\ lastEval.p # 0 /\ lastEval.ok
  /\ lastEval.doc.type = "BUY"
  /\ lastEval.doc.tokenIn = WETH
  /\ lastEval.token = TOKEN

\* C27: a document that is in the orders collection is in it after every
\* step.
C27_OrdersAreNeverDeleted ==
  [][\A o \in OrderIds : Stored(orders, o) => Stored(orders', o)]_vars

\* an order that was cancelled by its owner is still stored after a later
\* pass has ended
C27_Witness ==
  /\ Stored(orders, 1)
  /\ orders[1].status = "CANCELLED"
  /\ \E c \in CancelIds : cancels[c].reply = "cancelled"
  /\ pass[MaxPasses].pc = "done"

\* C28: the fill notification of an order is sent by a pass only after its
\* FILLED write has returned, at most once per order, and never for an
\* order that is stored as ACTIVE.
C28_FillNotifiedAfterWrite ==
  /\ \A o \in OrderIds : sent[o].filled <= 1
  /\ \A p \in PassIds :
       pass[p].pc = "notifyFilled"
       => pass[p].filled /\ orders[Doc(pass[p]).id].status # "ACTIVE"
  /\ \A o \in OrderIds : sent[o].filled > 0 => orders[o].status # "ACTIVE"

\* the fill notification of an order was sent, and a later pass has ended
C28_Witness ==
  /\ sent[1].filled = 1
  /\ orders[1].status = "FILLED"
  /\ pass[1].pc = "done"
  /\ pass[MaxPasses].pc = "done"

\* C22: every order in the store has amount > 0 and triggerPrice > 0
\* (a draft with a missing or malformed field is never stored).
C22_StoredOrdersArePositive ==
  \A o \in OrderIds :
    Stored(orders, o) => orders[o].amount > 0 /\ orders[o].triggerPrice > 0

\* create_order_* has stored the document with _id o in this step
Created(o) == ~Stored(orders, o) /\ Stored(orders', o)

\* C24: viewallorders pressed by user u lists exactly the stored orders
\* whose userId is u and whose status is ACTIVE at that moment: no FILLED or
\* CANCELLED order and no order of another user is listed.
C24_ListingIsOwnActiveOrders ==
  [][\A u \in Actors :
       ViewAllOrders(u)
       => /\ \A o \in lastUi'.listed :
               /\ Stored(orders, o)
               /\ orders[o].userId = u
               /\ orders[o].status = "ACTIVE"
          /\ \A o \in OrderIds :
               Stored(orders, o) /\ orders[o].userId = u
                 /\ orders[o].status = "ACTIVE"
               => o \in lastUi'.listed]_vars

\* a listing showed an order of the user while the store also held an order
\* that was not listed
C24_Witness ==
  /\ lastUi.listed # {}
  /\ \E o \in OrderIds : Stored(orders, o) /\ o \notin lastUi.listed

\* a wallet record holds the address and the ciphertext of one key, and
\* none of its fields is the text of a key
SealedWallet(w) ==
  /\ w.address \notin KeyTexts
  /\ w.encryptedKey \notin KeyTexts
  /\ \E k \in KeyTexts, iv \in Ivs :
       /\ w.address = AddressOf(k)
       /\ w.encryptedKey = iv \o ":" \o Cipher(k)

\* C25: no wallet in the users collection and no wallet of a stored order
\* holds the text of a private key (each holds the ciphertext and the
\* derived address), and no message of a handler carries the text of a key:
\* after an import the message carries the derived address.
C25_NoPlaintextKeyStoredOrSent ==
  /\ \A u \in Users : \A i \in 1..Len(users[u]) : SealedWallet(users[u][i])
  /\ \A o \in OrderIds : Stored(orders, o) => SealedWallet(orders[o].wallet)
  /\ lastUi.msg \notin KeyTexts
  /\ lastUi.msg \in {"", TOKEN, ErrorText} \cup {AddressOf(k) : k \in KeyTexts}

\* the user has imported a key, and an order that uses the imported wallet
\* is stored
C25_Witness ==
  \E u \in Actors, o \in OrderIds :
    /\ Len(users[u]) > 0
    /\ users[u][1] = [address |-> AddressOf(NewKey), encryptedKey |-> "iv7:04fa"]
    /\ Stored(orders, o)
    /\ orders[o].userId = u
    /\ orders[o].wallet = users[u][1]

C30_TextSetsOnlyTheAwaitedField ==
  [][\A u \in Actors, text \in Texts :
       userStates[u] \in AwaitingStates \ {"AWAITING_PRIVATE_KEY"} /\ Message(u, text)
       => LET st == userStates[u]
              draft == pendingOrders[u]
              number == IF text = "5" THEN 5 ELSE IF text = "150" THEN 150 ELSE 0
              valid ==
                CASE st \in {"AWAITING_TOKEN_INPUT_BUY", "AWAITING_TOKEN_INPUT_SELL"}
                       -> text = TOKEN
                  [] st \in {"AWAITING_SLIPPAGE_INPUT_BUY",
                             "AWAITING_SLIPPAGE_INPUT_SELL"}
                       -> number > 0 /\ number <= 100
                  [] OTHER -> number > 0
              expected ==
                CASE st = "AWAITING_TOKEN_INPUT_BUY" -> [draft EXCEPT !.tokenOut = text]
                  [] st = "AWAITING_TOKEN_INPUT_SELL" -> [draft EXCEPT !.tokenIn = text]
                  [] st = "AWAITING_AMOUNT_INPUT_BUY"
                       -> [draft EXCEPT !.amount = number * E18]
                  [] st \in {"AWAITING_SLIPPAGE_INPUT_BUY",
                             "AWAITING_SLIPPAGE_INPUT_SELL"}
                       -> [draft EXCEPT !.slippage = number]
                  [] OTHER -> [draft EXCEPT !.triggerPrice = number] IN
            /\ valid /\ draft # NoPending
               => pendingOrders'[u] = expected /\ userStates'[u] = NoState
            /\ ~valid
               => pendingOrders'[u] = draft /\ userStates'[u] = st
            /\ \A v \in Users \ {u} :
                 pendingOrders'[v] = pendingOrders[v] /\ userStates'[v] = userStates[v]]_vars

\* texts have set the token, the amount, the slippage and the trigger price
\* of a draft, and the user is awaited for a value again
C30_Witness ==
  \E u \in Actors :
    /\ pendingOrders[u].type = "BUY"
    /\ pendingOrders[u].tokenOut = TOKEN
    /\ pendingOrders[u].amount = 5 * E18
    /\ pendingOrders[u].slippage = 5
    /\ pendingOrders[u].triggerPrice = 150
    /\ userStates[u] = "AWAITING_SLIPPAGE_INPUT_BUY"

\* C31: when every awaited call returns or throws, every pass (up to the
\* bound of the model) is started and ends, whatever happened in the passes
\* before it: an order that failed, or Order.find itself throwing, does not
\* stop the timer from being set again.
C31_PassesRecur == \A p \in PassIds : <>(pass[p].pc = "done")

\* the execution of an order was broken off by an exception in the first
\* pass, the pass has ended, and the next pass has fetched the order again
C31_Witness ==
  /\ pass[1].pc = "done"
  /\ pass[2].pc = "price"
  /\ \E o \in OrderIds : partial[o] /\ Doc(pass[2]).id = o

\* a cancel request has stored CANCELLED and answered, and the order is
\* stored as CANCELLED
CancelledByUser(o) ==
  /\ \E c \in CancelIds : cancels[c].reply = "cancelled"
  /\ orders[o].status = "CANCELLED"

\* C32: once a cancel request has stored CANCELLED for an order, no step of
\* a pass requests a swap plan or submits a transaction for that order, also
\* not a pass that had fetched the order before the cancel.
C32_NoExecutionAfterCancel ==
  [][\A p \in PassIds :
       /\ pass'[p].pc \in {"quote", "send"}
       /\ pass'[p].pc # pass[p].pc
       => ~CancelledByUser(Doc(pass'[p]).id)]_vars


\* the executor has gone past a step of the plan whose id is "swap" and that
\* holds a transaction: receipt.hash of that step was assigned to tx_hash
SwapConfirmed(r) ==
  \E s \in 1..Len(r.steps) :
    /\ toLowerCase(r.steps[s].id) = "swap"
    /\ r.steps[s].items > 0
    /\ s < r.s

\* C33: a pass stores an order as FILLED only if, in the execution that went
\* before, a transaction of a step identified as the swap was confirmed; a
\* plan with no steps or with no swap step never yields a FILLED order
C33_FilledOnlyAfterSwap ==
  [][\A p \in PassIds :
       /\ pass[p].pc = "saveFilled"
       /\ pass'[p].filled
       => SwapConfirmed(pass[p])]_vars

\* the order is stored as ACTIVE and its expiry has passed
ExpiredActive(o) ==
  /\ orders[o].status = "ACTIVE"
  /\ orders[o].expiry # NULL
  /\ now > orders[o].expiry

\* an awaited call outside the execution attempt (quote, signer, plan) has
\* just thrown
OtherFailure ==
  /\ ~lastCall.ok
  /\ lastCall.call \notin {"quote", "wallet", "send", "wait"}

\* C34: an ACTIVE order whose expiry has passed reaches FILLED or CANCELLED
\* while the loop keeps running, whatever the execution attempts do; runs
\* in which the store or the messenger throws are left aside
C34_ExpiredOrdersEnd ==
  \/ <>OtherFailure
  \/ \A o \in OrderIds :
       [](ExpiredActive(o) => <>(orders[o].status # "ACTIVE"))

\* C35: a cancel request of user u changes the status only of an order
\* whose owner is u
C35_CancelOnlyOwn ==
  [][\A u \in Users, o \in OrderIds :
       /\ orders'[o].status # orders[o].status
       /\ CancelOrder(u, o)
       => orders[o].userId = u]_vars

\* C36: one draft yields at most one stored order, however often and however
\* fast the create button is pressed (one draft exists in a run of
\* SpecCreate)
C36_OneRecordPerDraft ==
  Cardinality({o \in OrderIds : orders[o].id = o}) <= 1

\* C37: the owner of an order never receives both the "order executed" and
\* the "order expired and was cancelled" message for it
C37_OneOutcomeMessage ==
  \A o \in OrderIds : ~(sent[o].filled > 0 /\ sent[o].expired > 0)

\* C38: every stored BUY order has the wrapped native token as tokenIn and
\* every stored SELL order has it as tokenOut, whatever buttons the user
\* presses and whatever texts the user sends while the draft is filled
C38_FixedTokenSide ==
  \A o \in OrderIds :
    orders[o].id = o =>
      /\ orders[o].type = "BUY" => orders[o].tokenIn = WETH
      /\ orders[o].type = "SELL" => orders[o].tokenOut = WETH

\* the wallet amount_sell_percent_ hands to getBalance
BalanceWallet(u) == selectedWallets[u]

\* C39: when amount_sell_percent_ sets the amount of a draft, the balance
\* was read from the wallet of that draft
C39_BalanceOfOrderWallet ==
  [][\A u \in Actors, percent \in Percents :
       /\ pendingOrders'[u].amount # pendingOrders[u].amount
       /\ PercentAmount(u, percent)
       => BalanceWallet(u) = pendingOrders[u].wallet]_vars
====
